---------------------------- MODULE Spec2Model ----------------------------
(***************************************************************************)
(* Cost-aware parallel SFC placement on multi-stage graphs.                *)
(*                                                                         *)
(* The module models src/MSG.py (run_simulation, construct_msg,            *)
(* find_feasible_path, reserve_resources, PhysicalNode) and                *)
(* src/brute-force_SFC_placement.py (its own construct_msg /               *)
(* find_feasible_path, run_brute_force, simulate_with_msg_and_brute).      *)
(*                                                                         *)
(* Conventions.  A Python list is a TLA+ sequence, so element i of the     *)
(* code (0-based) is element i+1 here; host ids and stage indices keep     *)
(* their 0-based values.  An MSG vertex name f"{id}_s{stage}" is the pair  *)
(* <<id, stage>>; int(name.split('_')[0]) is LabelHost.  None is the       *)
(* record None, and a (path, delay, cost) tuple is a record with           *)
(* found = TRUE.                                                           *)
(***************************************************************************)
EXTENDS Integers, Sequences, FiniteSets, TLC

VARIABLES
    topo,                \* which substrate graph Gp / G is (index in Topologies)
    physical_nodes,      \* the ledger: list of PhysicalNode objects
    sfc_requests,        \* the request list of the batch
    idx,                 \* position of the for-loop over sfc_requests (1-based)
    pc,                  \* position inside the loop body
    MSG_active,          \* locals of the loop body
    stage_nodes_active,
    result_active,
    extra_cost_a,
    MSG_backup,
    stage_nodes_backup,
    result_backup,
    result_active_bf,    \* brute-force_SFC_placement.py: its own result_active
    result_brute,        \* brute-force_SFC_placement.py: result_brute
    placements,          \* the list of placement dictionaries
    log                  \* the per-request outcome lines printed to the console

vars == <<topo, physical_nodes, sfc_requests, idx, pc, MSG_active,
          stage_nodes_active, result_active, extra_cost_a, MSG_backup,
          stage_nodes_backup, result_backup, result_active_bf, result_brute,
          placements, log>>

----------------------------------------------------------------------------
(* Program constants *)

NUM_PHYSICAL_NODES == 6

MAX_CPU_PER_NODE == 7

NODE_ACTIVATION_COST == 2

PE_DEPLOY_UNIT_COST == 1

BF_MAX_CPU_PER_NODE == 10

----------------------------------------------------------------------------
(* Bounds of the model *)

\* longest request list of a batch
MaxRequests == 2

\* initial capacities range over 1..MaxCpu (and MAX_CPU_PER_NODE itself)
MaxCpu == 3

----------------------------------------------------------------------------
(* Substrate graphs.  An edge is <<u, v, delay, cost>> (bandwidth is 100   *)
(* on every link and never read).                                          *)

\* generate_physical_graph of MSG.py: the fixed edge list
PhysicalGraphEdges ==
    { <<0, 1, 2, 3>>, <<1, 2, 3, 2>>, <<2, 3, 1, 4>>, <<3, 4, 5, 6>>,
      <<1, 5, 2, 3>>, <<1, 4, 4, 5>>, <<0, 5, 6, 6>>, <<2, 6, 3, 3>>,
      <<5, 7, 4, 4>>, <<6, 7, 2, 2>> }

\* nx.Graph().add_edges_from(edges): the nodes are the endpoints of the edges
generate_physical_graph ==
    [nodes |-> {e[1] : e \in PhysicalGraphEdges} \cup {e[2] : e \in PhysicalGraphEdges},
     edges |-> PhysicalGraphEdges]

\* Samples of generate_physical_graph of brute-force_SFC_placement.py
\* (erdos_renyi_graph: every node 0..n-1 is present, each edge is present or
\* not, delay in 1..10 and cost in 1..5 per edge), the node count scaled
\* down.  The second one is not connected.
ErdosRenyiSamples ==
    << [nodes |-> 0 .. 3,
        edges |-> { <<0, 1, 2, 3>>, <<1, 2, 1, 5>>, <<2, 3, 4, 1>>, <<0, 3, 9, 2>> }],
       [nodes |-> 0 .. 3,
        edges |-> { <<0, 1, 3, 1>>, <<1, 2, 5, 4>> }],
       [nodes |-> 0 .. 4,
        edges |-> { <<0, 1, 1, 4>>, <<1, 2, 1, 1>>, <<0, 2, 3, 1>>, <<2, 3, 2, 2>>,
                    <<3, 4, 6, 3>>, <<1, 4, 10, 1>> }] >>

Topologies == <<generate_physical_graph>> \o ErdosRenyiSamples

\* G[u][v]: the attributes of the undirected link between u and v
Link(G, u, v) ==
    CHOOSE e \in G.edges : (e[1] = u /\ e[2] = v) \/ (e[1] = v /\ e[2] = u)

Neighbours(G, u) ==
    {e[2] : e \in {x \in G.edges : x[1] = u}} \cup {e[1] : e \in {x \in G.edges : x[2] = u}}

\* the simple paths from u to v that avoid the nodes of seen
RECURSIVE SimplePaths(_, _, _, _)
SimplePaths(G, u, v, seen) ==
    IF u = v THEN { <<u>> }
    ELSE UNION { { <<u>> \o p : p \in SimplePaths(G, w, v, seen \cup {w}) } :
                 w \in Neighbours(G, u) \ seen }

\* sum(G[path[i]][path[i+1]][attr]) with attr 3 = delay, 4 = cost
RECURSIVE PathSum(_, _, _)
PathSum(G, path, attr) ==
    IF Len(path) < 2 THEN 0
    ELSE Link(G, path[1], path[2])[attr] + PathSum(G, Tail(path), attr)

\* nx.has_path / nx.shortest_path(weight='delay') on one graph, tabulated for
\* every pair of its nodes: [has |-> , delay |-> , cost |-> ] of the
\* delay-shortest path.  Every graph of Topologies has exactly one
\* delay-shortest path between any two connected nodes, so the path
\* networkx returns is this one.
PathTable(G) ==
    [u \in G.nodes |->
        [v \in G.nodes |->
            LET ps == SimplePaths(G, u, v, {u})
            IN  IF ps = {} THEN [has |-> FALSE, delay |-> 0, cost |-> 0]
                ELSE LET best == CHOOSE p \in ps :
                                    \A q \in ps : PathSum(G, p, 3) <= PathSum(G, q, 3)
                     IN  [has |-> TRUE, delay |-> PathSum(G, best, 3),
                          cost |-> PathSum(G, best, 4)]]]

PathTables == [t \in 1 .. Len(Topologies) |-> PathTable(Topologies[t])]

has_path(t, u, v) == PathTables[t][u][v].has

shortest_path_delay(t, u, v) == PathTables[t][u][v].delay

shortest_path_cost(t, u, v) == PathTables[t][u][v].cost

----------------------------------------------------------------------------
(* PhysicalNode *)

\* PhysicalNode.__init__
PhysicalNode(node_id, cpu_capacity) ==
    [id |-> node_id, cpu |-> cpu_capacity, used_cpu |-> 0, activated |-> FALSE]

\* has_resources as a check of the capacity alone, forgetting what is in use
has_resources_forgets_used(node, required) == node.cpu >= required

\* PhysicalNode.has_resources
has_resources(node, required) == (node.cpu - node.used_cpu) >= required

\* reserve that charges the CPU but leaves the activation flag as it was
reserve_keeps_flag(node, required) ==
    [node EXCEPT !.used_cpu = node.used_cpu + required]

\* PhysicalNode.reserve
reserve(node, required) ==
    [node EXCEPT !.activated = TRUE, !.used_cpu = node.used_cpu + required]

\* PhysicalNode.reset
reset(node) == [node EXCEPT !.used_cpu = 0, !.activated = FALSE]

\* SFCRequest.__init__ (src and dest are held by host id)
SFCRequest(request_id, src, dest, stages, bw, max_delay) ==
    [id |-> request_id, src |-> src, dest |-> dest, stages |-> stages,
     bw |-> bw, max_delay |-> max_delay]

None == [found |-> FALSE, path |-> <<>>, delay |-> 0, cost |-> 0]

NoMSG == [nodes |-> <<>>, edges |-> <<>>]

----------------------------------------------------------------------------
(* construct_msg *)

\* the vertex name f"{node.id}_s{stage_idx}"
vname(node_id, stage_idx) == <<node_id, stage_idx>>

\* int(n.split('_')[0])
LabelHost(label) == label[1]

\* the inner loop of construct_msg for one stage: the names of the hosts, in
\* ledger order, that have the resources and are not excluded
RECURSIVE current_stage(_, _, _, _)
current_stage(nodes, stage_idx, cpu_req, used_nodes) ==
    IF nodes = <<>> THEN <<>>
    ELSE LET node == Head(nodes)
             rest == current_stage(Tail(nodes), stage_idx, cpu_req, used_nodes)
         IN  IF has_resources(node, cpu_req) /\ node.id \notin used_nodes
             THEN <<vname(node.id, stage_idx)>> \o rest
             ELSE rest

SeqRange(s) == {s[i] : i \in 1 .. Len(s)}

\* construct_msg(Gp, sfc, physical_nodes, used_nodes): (MSG, stage_nodes)
construct_msg(t, sfc, nodes, used_nodes) ==
    LET stage_nodes == [s \in 1 .. Len(sfc.stages) |->
                           current_stage(nodes, s - 1, sfc.stages[s], used_nodes)]
        labels == UNION {SeqRange(stage_nodes[s]) : s \in 1 .. Len(stage_nodes)}
        attrs == [v \in labels |->
                     [physical |-> v[1], stage |-> v[2], cpu |-> sfc.stages[v[2] + 1]]]
        pairs == UNION { SeqRange(stage_nodes[i]) \X SeqRange(stage_nodes[i + 1]) :
                         i \in 1 .. (Len(stage_nodes) - 1) }
        linked == { e \in pairs :
                      /\ attrs[e[1]].physical # attrs[e[2]].physical
                      /\ has_path(t, attrs[e[1]].physical, attrs[e[2]].physical) }
    IN  [MSG |-> [nodes |-> attrs,
                  edges |-> [e \in linked |->
                               [delay |-> shortest_path_delay(t, attrs[e[1]].physical,
                                                                 attrs[e[2]].physical),
                                cost |-> shortest_path_cost(t, attrs[e[1]].physical,
                                                               attrs[e[2]].physical)]]],
         stage_nodes |-> stage_nodes]

----------------------------------------------------------------------------
(* find_feasible_path *)

\* itertools.product(*lists) as the list of its tuples, in its order: the
\* first list varies slowest
RECURSIVE product(_)
product(lists) ==
    IF lists = <<>> THEN << <<>> >>
    ELSE LET rest == product(Tail(lists))
             m == Len(rest)
             h == Head(lists)
         IN  [k \in 1 .. (Len(h) * m) |->
                 <<h[((k - 1) \div m) + 1]>> \o rest[((k - 1) % m) + 1]]

\* the distinctness loop comparing neighbouring vertices only
distinct_physical_neighbours(MSG, path) ==
    \A i \in 1 .. (Len(path) - 1) :
        MSG.nodes[path[i]].physical # MSG.nodes[path[i + 1]].physical

\* the first loop over a path: no physical node is seen twice
distinct_physical(MSG, path) ==
    \A i \in 1 .. Len(path) : \A j \in 1 .. Len(path) :
        i < j => MSG.nodes[path[i]].physical # MSG.nodes[path[j]].physical

\* the second loop: every consecutive pair is an MSG edge
all_edges(MSG, path) ==
    \A i \in 1 .. (Len(path) - 1) : <<path[i], path[i + 1]>> \in DOMAIN MSG.edges

RECURSIVE edge_sum(_, _, _)
edge_sum(MSG, path, attr) ==
    IF Len(path) < 2 THEN 0
    ELSE (IF attr = "delay" THEN MSG.edges[<<path[1], path[2]>>].delay
                            ELSE MSG.edges[<<path[1], path[2]>>].cost)
         + edge_sum(MSG, Tail(path), attr)

\* a source leg that prices an unreachable first host out of every budget
src_leg_unreachable_is_far(t, sfc, first_physical) ==
    IF first_physical = sfc.src THEN [delay |-> 0, cost |-> 0]
    ELSE IF has_path(t, sfc.src, first_physical)
         THEN [delay |-> shortest_path_delay(t, sfc.src, first_physical),
               cost |-> shortest_path_cost(t, sfc.src, first_physical)]
         ELSE [delay |-> 1000, cost |-> 1000]

\* source-to-first and last-to-destination legs (lines 188-199): zero when
\* the hosts coincide or when the substrate has no path
src_leg(t, sfc, first_physical) ==
    IF first_physical # sfc.src /\ has_path(t, sfc.src, first_physical)
    THEN [delay |-> shortest_path_delay(t, sfc.src, first_physical),
          cost |-> shortest_path_cost(t, sfc.src, first_physical)]
    ELSE [delay |-> 0, cost |-> 0]

dest_leg(t, sfc, last_physical) ==
    IF last_physical # sfc.dest /\ has_path(t, last_physical, sfc.dest)
    THEN [delay |-> shortest_path_delay(t, last_physical, sfc.dest),
          cost |-> shortest_path_cost(t, last_physical, sfc.dest)]
    ELSE [delay |-> 0, cost |-> 0]

\* one iteration of the loop over product(*stage_nodes): whether the path is
\* appended to paths, and with which totals
candidate(MSG, path, sfc, t) ==
    IF ~distinct_physical(MSG, path) \/ ~all_edges(MSG, path)
    THEN [keep |-> FALSE, path |-> path, delay |-> 0, cost |-> 0]
    ELSE LET s == src_leg(t, sfc, MSG.nodes[path[1]].physical)
             d == dest_leg(t, sfc, MSG.nodes[path[Len(path)]].physical)
             total_delay == edge_sum(MSG, path, "delay") + s.delay + d.delay
             total_cost == edge_sum(MSG, path, "cost") + s.cost + d.cost
         IN  [keep |-> total_delay <= sfc.max_delay, path |-> path,
              delay |-> total_delay, cost |-> total_cost]

\* min taken on the delay (x[1]) instead of the cost
min_delay(paths) ==
    paths[CHOOSE i \in 1 .. Len(paths) :
            /\ \A j \in 1 .. Len(paths) : paths[i].delay <= paths[j].delay
            /\ \A j \in 1 .. (i - 1) : paths[j].delay > paths[i].delay]

\* min with ties going to the last element of least cost
min_cost_last(paths) ==
    paths[CHOOSE i \in 1 .. Len(paths) :
            /\ \A j \in 1 .. Len(paths) : paths[i].cost <= paths[j].cost
            /\ \A j \in (i + 1) .. Len(paths) : paths[j].cost > paths[i].cost]

\* min(paths, key=lambda x: x[2]): the first element of least cost
min_cost(paths) ==
    paths[CHOOSE i \in 1 .. Len(paths) :
            /\ \A j \in 1 .. Len(paths) : paths[i].cost <= paths[j].cost
            /\ \A j \in 1 .. (i - 1) : paths[j].cost > paths[i].cost]

\* find_feasible_path(MSG, stage_nodes, sfc, Gp)
find_feasible_path(MSG, stage_nodes, sfc, t) ==
    LET all == product(stage_nodes)
        paths == SelectSeq([k \in 1 .. Len(all) |-> candidate(MSG, all[k], sfc, t)],
                           LAMBDA c : c.keep)
    IN  IF paths = <<>> THEN None
        ELSE LET best == min_cost(paths)
             IN  [found |-> TRUE, path |-> best.path, delay |-> best.delay,
                  cost |-> best.cost]

----------------------------------------------------------------------------
(* reserve_resources *)

\* reserve_resources(path, MSG, physical_nodes): the ledger after the loop
\* and the extra cost returned.  physical_nodes[node_id] is entry node_id + 1.
RECURSIVE reserve_resources(_, _, _)
reserve_resources(path, MSG, nodes) ==
    IF path = <<>> THEN [nodes |-> nodes, extra_cost |-> 0]
    ELSE LET node_id == MSG.nodes[Head(path)].physical
             cpu_req == MSG.nodes[Head(path)].cpu
             node == nodes[node_id + 1]
             charge == (IF ~node.activated THEN NODE_ACTIVATION_COST ELSE 0)
                       + cpu_req * PE_DEPLOY_UNIT_COST
             after == [nodes EXCEPT ![node_id + 1] = reserve(node, cpu_req)]
             rest == reserve_resources(Tail(path), MSG, after)
         IN  [nodes |-> rest.nodes, extra_cost |-> charge + rest.extra_cost]

----------------------------------------------------------------------------
(* The inputs of a batch *)

\* initial CPU capacities: the program's own and the small ones
Capacities == (1 .. MaxCpu) \cup {MAX_CPU_PER_NODE}

\* physical_nodes = [PhysicalNode(i, cpu) for i in range(n)]
UniformNodes(n, cpu) == [i \in 1 .. n |-> PhysicalNode(i - 1, cpu)]

\* a ledger of unequal capacities: host i has capacity 1 + (i mod MaxCpu)
MixedNodes(n) == [i \in 1 .. n |-> PhysicalNode(i - 1, 1 + ((i - 1) % MaxCpu))]

\* the same capacities in falling order: host i has MaxCpu - (i mod MaxCpu)
FallingNodes(n) == [i \in 1 .. n |-> PhysicalNode(i - 1, MaxCpu - ((i - 1) % MaxCpu))]

InitialLedgers ==
    {UniformNodes(NUM_PHYSICAL_NODES, c) : c \in Capacities}
        \cup {MixedNodes(NUM_PHYSICAL_NODES), FallingNodes(NUM_PHYSICAL_NODES)}

\* the requests a batch is drawn from, as <<src, dest, stages, max_delay>>:
\* the two of generate_sfc_requests, and others that make a stage
\* infeasible, no path feasible, a backup absent, or two chains equally cheap
RequestPool ==
    { <<0, 3, <<2, 2, 1>>, 20>>,
      <<1, 0, <<2, 2, 1>>, 20>>,
      <<1, 3, <<2, 2, 1>>, 23>>,
      <<1, 4, <<2, 2, 1>>, 9>>,
      <<1, 3, <<3, 3>>, 20>>,
      <<4, 0, <<1>>, 20>>,
      <<0, 3, <<1, 2>>, 3>> }

\* the request lists of at most MaxRequests requests
RequestLists == UNION { [1 .. n -> RequestPool] : n \in 1 .. MaxRequests }

\* ids are the positions, as generate_sfc_requests numbers them
MakeRequests(list) ==
    [i \in 1 .. Len(list) |->
        SFCRequest(i - 1, list[i][1], list[i][2], list[i][3], 20, list[i][4])]

----------------------------------------------------------------------------
(* run_simulation of MSG.py, one action per block of the loop body *)

sfc == sfc_requests[idx]

Oracle == <<result_active_bf, result_brute>>

Locals == <<MSG_active, stage_nodes_active, result_active, extra_cost_a,
            MSG_backup, stage_nodes_backup, result_backup>>

InitLocals ==
    /\ MSG_active = NoMSG
    /\ stage_nodes_active = <<>>
    /\ result_active = None
    /\ extra_cost_a = 0
    /\ MSG_backup = NoMSG
    /\ stage_nodes_backup = <<>>
    /\ result_backup = None
    /\ result_active_bf = None
    /\ result_brute = None
    /\ placements = <<>>
    /\ log = <<>>
    /\ idx = 1

\* lines 267-274, with the capacities and the request list as inputs
Init ==
    /\ topo = 1
    /\ physical_nodes \in InitialLedgers
    /\ \E list \in RequestLists : sfc_requests = MakeRequests(list)
    /\ pc = "loop"
    /\ InitLocals

\* all(...) that never sees an empty stage list
all_nonempty_unchecked(stage_nodes) == TRUE

\* all(stage_nodes): no stage list is empty
all_nonempty(stage_nodes) == \A s \in 1 .. Len(stage_nodes) : stage_nodes[s] # <<>>

\* lines 275-280: build the active MSG; an empty stage ends this request
ConstructActive ==
    /\ pc = "loop"
    /\ idx <= Len(sfc_requests)
    /\ LET r == construct_msg(topo, sfc, physical_nodes, {})
       IN  /\ MSG_active' = r.MSG
           /\ stage_nodes_active' = r.stage_nodes
           /\ IF ~all_nonempty(r.stage_nodes)
              THEN /\ log' = Append(log, <<sfc.id, "No feasible placement for active path">>)
                   /\ idx' = idx + 1
                   /\ pc' = "loop"
              ELSE /\ pc' = "search_active"
                   /\ UNCHANGED <<log, idx>>
    /\ UNCHANGED <<topo, physical_nodes, sfc_requests, result_active, extra_cost_a,
                   MSG_backup, stage_nodes_backup, result_backup, Oracle,
                   placements>>

\* lines 281-284: search the active MSG; not-found ends this request
SearchActive ==
    /\ pc = "search_active"
    /\ LET r == find_feasible_path(MSG_active, stage_nodes_active, sfc, topo)
       IN  /\ result_active' = r
           /\ IF r = None
              THEN /\ log' = Append(log, <<sfc.id, "No valid active path within delay constraint">>)
                   /\ idx' = idx + 1
                   /\ pc' = "loop"
              ELSE /\ pc' = "reserve_active"
                   /\ UNCHANGED <<log, idx>>
    /\ UNCHANGED <<topo, physical_nodes, sfc_requests, MSG_active, stage_nodes_active,
                   extra_cost_a, MSG_backup, stage_nodes_backup, result_backup,
                   Oracle, placements>>

\* lines 285-287: commit the active chain
ReserveActive ==
    /\ pc = "reserve_active"
    /\ LET r == reserve_resources(result_active.path, MSG_active, physical_nodes)
       IN  /\ physical_nodes' = r.nodes
           /\ extra_cost_a' = r.extra_cost
    /\ log' = Append(log, <<sfc.id, "Active Path">>)
    /\ pc' = "construct_backup"
    /\ UNCHANGED <<topo, sfc_requests, idx, MSG_active, stage_nodes_active,
                   result_active, MSG_backup, stage_nodes_backup, result_backup,
                   Oracle, placements>>

\* used_nodes as the empty exclusion set
used_nodes_of_nothing(path) == {}

\* used_nodes = set(int(n.split('_')[0]) for n in path_active)
used_nodes_of(path) == {LabelHost(path[i]) : i \in 1 .. Len(path)}

\* lines 289-290: build the backup MSG without the active chain's hosts
ConstructBackup ==
    /\ pc = "construct_backup"
    /\ LET r == construct_msg(topo, sfc, physical_nodes, used_nodes_of(result_active.path))
       IN  /\ MSG_backup' = r.MSG
           /\ stage_nodes_backup' = r.stage_nodes
    /\ pc' = "search_backup"
    /\ UNCHANGED <<topo, physical_nodes, sfc_requests, idx, MSG_active,
                   stage_nodes_active, result_active, extra_cost_a, result_backup,
                   Oracle, placements, log>>

\* line 291: search the backup MSG
SearchBackup ==
    /\ pc = "search_backup"
    /\ result_backup' = find_feasible_path(MSG_backup, stage_nodes_backup, sfc, topo)
    /\ pc' = "backup_result"
    /\ UNCHANGED <<topo, physical_nodes, sfc_requests, idx, MSG_active,
                   stage_nodes_active, result_active, extra_cost_a, MSG_backup,
                   stage_nodes_backup, Oracle, placements, log>>

\* the backup delay cost summing the cost attribute of the paths
RECURSIVE backup_delay_cost_of_costs(_, _, _, _, _)
backup_delay_cost_of_costs(t, msg_a, path_a, msg_b, path_b) ==
    IF path_a = <<>> \/ path_b = <<>> THEN 0
    ELSE LET a_physical == msg_a.nodes[Head(path_a)].physical
             b_physical == msg_b.nodes[Head(path_b)].physical
         IN  (IF has_path(t, a_physical, b_physical)
              THEN shortest_path_cost(t, a_physical, b_physical) ELSE 0)
             + backup_delay_cost_of_costs(t, msg_a, Tail(path_a), msg_b, Tail(path_b))

\* lines 297-303: the backup delay cost, summed over zip(path_active, path_backup)
RECURSIVE backup_delay_cost_of(_, _, _, _, _)
backup_delay_cost_of(t, msg_a, path_a, msg_b, path_b) ==
    IF path_a = <<>> \/ path_b = <<>> THEN 0
    ELSE LET a_physical == msg_a.nodes[Head(path_a)].physical
             b_physical == msg_b.nodes[Head(path_b)].physical
         IN  (IF has_path(t, a_physical, b_physical)
              THEN shortest_path_delay(t, a_physical, b_physical) ELSE 0)
             + backup_delay_cost_of(t, msg_a, Tail(path_a), msg_b, Tail(path_b))

\* the dictionary appended at lines 311-325
PlacementDict(request, active, backup, cost_a, cost_b, delay_cost, total) ==
    [Source |-> request.src, Destination |-> request.dest, SFC_ID |-> request.id,
     Active_Path |-> active.path, Active_Delay |-> active.delay,
     Active_Cost |-> active.cost,
     Backup_Path |-> backup.path, Backup_Delay |-> backup.delay,
     Backup_Cost |-> backup.cost,
     Deploy_Cost_active |-> cost_a, Deploy_Cost_backup |-> cost_b,
     Backup_Delay_Cost |-> delay_cost, Total_Cost |-> total]

\* lines 292-304 and 311-325: a backup was found; commit it and record
ReserveBackup ==
    /\ pc = "backup_result"
    /\ result_backup # None
    /\ LET r == reserve_resources(result_backup.path, MSG_backup, physical_nodes)
           extra_cost_b == r.extra_cost
           backup_delay_cost == backup_delay_cost_of(topo, MSG_active, result_active.path,
                                                     MSG_backup, result_backup.path)
           total_cost == result_active.cost + result_backup.cost + extra_cost_a
                         + extra_cost_b + backup_delay_cost
       IN  /\ physical_nodes' = r.nodes
           /\ placements' = Append(placements,
                  PlacementDict(sfc, result_active, result_backup, extra_cost_a,
                                extra_cost_b, backup_delay_cost, total_cost))
    /\ log' = Append(log, <<sfc.id, "Backup Path">>)
    /\ idx' = idx + 1
    /\ pc' = "loop"
    /\ UNCHANGED <<topo, sfc_requests, Locals, Oracle>>

\* a missing backup handled like a missing active chain: the request is dropped
NoBackup_drops_request ==
    /\ pc = "backup_result"
    /\ result_backup = None
    /\ log' = Append(log, <<sfc.id, "No valid backup path found">>)
    /\ idx' = idx + 1
    /\ pc' = "loop"
    /\ UNCHANGED <<topo, physical_nodes, sfc_requests, Locals, Oracle, placements>>

\* lines 305-325: no backup; record the request with the backup terms zero
NoBackup ==
    /\ pc = "backup_result"
    /\ result_backup = None
    /\ LET backup == [path |-> <<>>, delay |-> 0, cost |-> 0]
           extra_cost_b == 0
           backup_delay_cost == 0
           total_cost == result_active.cost + extra_cost_a
       IN  placements' = Append(placements,
               PlacementDict(sfc, result_active, backup, extra_cost_a,
                             extra_cost_b, backup_delay_cost, total_cost))
    /\ log' = Append(log, <<sfc.id, "No valid backup path found">>)
    /\ idx' = idx + 1
    /\ pc' = "loop"
    /\ UNCHANGED <<topo, physical_nodes, sfc_requests, Locals, Oracle>>

\* line 327: the loop is over
Finish ==
    /\ pc = "loop"
    /\ idx > Len(sfc_requests)
    /\ pc' = "done"
    /\ UNCHANGED <<topo, physical_nodes, sfc_requests, idx, Locals, Oracle,
                   placements, log>>

Next ==
    \/ ConstructActive
    \/ SearchActive
    \/ ReserveActive
    \/ ConstructBackup
    \/ SearchBackup
    \/ ReserveBackup
    \/ NoBackup
    \/ Finish

Spec == Init /\ [][Next]_vars

----------------------------------------------------------------------------
(* brute-force_SFC_placement.py: its search and the exhaustive enumerator *)

\* construct_msg of brute-force_SFC_placement.py (lines 63-85), the same
\* statements as construct_msg of MSG.py
BF_construct_msg(t, request, nodes, used_nodes) ==
    construct_msg(t, request, nodes, used_nodes)

\* one iteration of the loop of its find_feasible_path: the total delay and
\* cost are those of the MSG edges alone
BF_candidate(MSG, path, request) ==
    IF ~distinct_physical(MSG, path) \/ ~all_edges(MSG, path)
    THEN [keep |-> FALSE, path |-> path, delay |-> 0, cost |-> 0]
    ELSE LET total_delay == edge_sum(MSG, path, "delay")
         IN  [keep |-> total_delay <= request.max_delay, path |-> path,
              delay |-> total_delay, cost |-> edge_sum(MSG, path, "cost")]

\* find_feasible_path of brute-force_SFC_placement.py
BF_find_feasible_path(MSG, stage_nodes, request, t) ==
    LET all == product(stage_nodes)
        paths == SelectSeq([k \in 1 .. Len(all) |-> BF_candidate(MSG, all[k], request)],
                           LAMBDA c : c.keep)
    IN  IF paths = <<>> THEN None
        ELSE LET best == min_cost(paths)
             IN  [found |-> TRUE, path |-> best.path, delay |-> best.delay,
                  cost |-> best.cost]

\* list(G.nodes) of an erdos_renyi_graph: 0, 1, ..., n-1
all_nodes(t) == [i \in 1 .. Cardinality(Topologies[t].nodes) |-> i - 1]

\* itertools.permutations(nodes, r) as the list of its tuples, in its order:
\* the tuples of product(nodes, repeat=r) without a repeated element
permutations(nodes, r) ==
    SelectSeq(product([i \in 1 .. r |-> nodes]),
              LAMBDA perm : \A i \in 1 .. r : \A j \in 1 .. r :
                                i # j => perm[i] # perm[j])

\* the body of the loop of run_brute_force for one permutation
RECURSIVE perm_totals(_, _, _)
perm_totals(t, perm, i) ==
    IF i >= Len(perm) THEN [valid |-> TRUE, delay |-> 0, cost |-> 0]
    ELSE IF ~has_path(t, perm[i], perm[i + 1])
         THEN [valid |-> FALSE, delay |-> 0, cost |-> 0]
         ELSE LET rest == perm_totals(t, perm, i + 1)
              IN  [valid |-> rest.valid,
                   delay |-> shortest_path_delay(t, perm[i], perm[i + 1]) + rest.delay,
                   cost |-> shortest_path_cost(t, perm[i], perm[i + 1]) + rest.cost]

\* run_brute_force(G, sfc)
run_brute_force(t, request) ==
    LET perms == permutations(all_nodes(t), Len(request.stages))
        found == SelectSeq(
                    [k \in 1 .. Len(perms) |->
                        LET r == perm_totals(t, perms[k], 1)
                        IN  [keep |-> r.valid /\ r.delay <= request.max_delay,
                             path |-> perms[k], delay |-> r.delay, cost |-> r.cost]],
                    LAMBDA c : c.keep)
    IN  IF found = <<>> THEN None
        ELSE LET best == min_cost(found)
             IN  [found |-> TRUE, path |-> best.path, delay |-> best.delay,
                  cost |-> best.cost]

\* requests as generate_sfc_requests of brute-force_SFC_placement.py builds
\* them on graph t: src and dst two distinct nodes, chains of one to three
\* stages of its demands 1..3, the budget 20 of its range and two smaller
\* ones that rule chains out on graphs this small
OracleStageLists == { <<1>>, <<2, 3>>, <<2, 2, 1>> }

OracleBudgets == { 3, 6, 20 }

OracleRequests(t) ==
    { SFCRequest(0, e[1], e[2], stages, 20, budget) :
        e \in { x \in Topologies[t].nodes \X Topologies[t].nodes : x[1] # x[2] },
        stages \in OracleStageLists, budget \in OracleBudgets }

\* one request on one sample graph, and a ledger on which nothing is
\* reserved: physical_nodes = [PhysicalNode(i, cpu) for i in range(NUM_NODES)]
\* with cpu the program's MAX_CPU_PER_NODE or a capacity of Capacities
InitOracle ==
    /\ topo \in 2 .. Len(Topologies)
    /\ \E cpu \in Capacities \cup {BF_MAX_CPU_PER_NODE} :
          physical_nodes = UniformNodes(Cardinality(Topologies[topo].nodes), cpu)
    /\ \E request \in OracleRequests(topo) : sfc_requests = <<request>>
    /\ pc = "oracle"
    /\ InitLocals

\* MSG.py lines 277 and 281: construct_msg + find_feasible_path of MSG.py
OracleSearchMSG ==
    /\ pc = "oracle"
    /\ LET r == construct_msg(topo, sfc, physical_nodes, {})
       IN  /\ MSG_active' = r.MSG
           /\ stage_nodes_active' = r.stage_nodes
           /\ result_active' = find_feasible_path(r.MSG, r.stage_nodes, sfc, topo)
    /\ pc' = "oracle_bf"
    /\ UNCHANGED <<topo, physical_nodes, sfc_requests, idx, extra_cost_a, MSG_backup,
                   stage_nodes_backup, result_backup, Oracle, placements, log>>

\* brute-force_SFC_placement.py lines 144-145: its construct_msg + find_feasible_path
OracleSearchBF ==
    /\ pc = "oracle_bf"
    /\ LET r == BF_construct_msg(topo, sfc, physical_nodes, {})
       IN  result_active_bf' = BF_find_feasible_path(r.MSG, r.stage_nodes, sfc, topo)
    /\ pc' = "oracle_brute"
    /\ UNCHANGED <<topo, physical_nodes, sfc_requests, idx, Locals, result_brute,
                   placements, log>>

\* brute-force_SFC_placement.py line 168: run_brute_force
OracleBruteForce ==
    /\ pc = "oracle_brute"
    /\ result_brute' = run_brute_force(topo, sfc)
    /\ pc' = "compared"
    /\ UNCHANGED <<topo, physical_nodes, sfc_requests, idx, Locals, result_active_bf,
                   placements, log>>

\* MSG.py lines 285-287: the chain find_feasible_path of MSG.py returned is
\* committed by reserve_resources
OracleReserve ==
    /\ pc = "compared"
    /\ result_active.found
    /\ LET r == reserve_resources(result_active.path, MSG_active, physical_nodes)
       IN  /\ physical_nodes' = r.nodes
           /\ extra_cost_a' = r.extra_cost
    /\ pc' = "committed"
    /\ UNCHANGED <<topo, sfc_requests, idx, MSG_active, stage_nodes_active,
                   result_active, MSG_backup, stage_nodes_backup, result_backup,
                   Oracle, placements, log>>

NextOracle ==
    \/ OracleSearchMSG
    \/ OracleSearchBF
    \/ OracleBruteForce
    \/ OracleReserve

SpecOracle == InitOracle /\ [][NextOracle]_vars

----------------------------------------------------------------------------
(* Properties of run_simulation *)

\* the host ids a chain maps its stages to
HostsOf(path) == {path[i][1] : i \in 1 .. Len(path)}

\* the active chain is committed and its record not yet appended
ActiveInFlight == pc \in {"construct_backup", "search_backup", "backup_result"}

\* C1.  Capacity invariant: at every point of the batch, for every host,
\* the CPU in use is at most the host's capacity (and never negative).
CapacityInvariant ==
    \A i \in 1 .. Len(physical_nodes) :
        /\ physical_nodes[i].used_cpu <= physical_nodes[i].cpu
        /\ physical_nodes[i].used_cpu >= 0

\* C1 witness: a request has committed an active and a backup chain, and a
\* host is filled exactly to its capacity.
CapacityWitness ==
    /\ pc = "loop"
    /\ placements # <<>>
    /\ placements[Len(placements)].Backup_Path # <<>>
    /\ \E i \in 1 .. Len(physical_nodes) :
          /\ physical_nodes[i].used_cpu = physical_nodes[i].cpu
          /\ physical_nodes[i].id \in HostsOf(placements[Len(placements)].Backup_Path)

\* C2.  Disjointness invariant: whenever a request has both an active and a
\* backup chain (found, or recorded), the two chains share no host id.
DisjointnessInvariant ==
    /\ \A k \in 1 .. Len(placements) :
          HostsOf(placements[k].Active_Path) \cap HostsOf(placements[k].Backup_Path) = {}
    /\ (pc = "backup_result" /\ result_backup.found)
          => HostsOf(result_active.path) \cap HostsOf(result_backup.path) = {}

\* C2 witness: a recorded request has a backup chain, on hosts that still
\* had room for the active chain's stages.
DisjointnessWitness ==
    \E k \in 1 .. Len(placements) :
        /\ placements[k].Backup_Path # <<>>
        /\ Len(placements[k].Active_Path) >= 2
        /\ \A i \in 1 .. Len(physical_nodes) : physical_nodes[i].used_cpu < physical_nodes[i].cpu

\* a chain for a request: one vertex per stage, in stage order, on pairwise
\* distinct hosts
IsChainFor(path, request) ==
    /\ Len(path) = Len(request.stages)
    /\ \A i \in 1 .. Len(path) : path[i][2] = i - 1
    /\ \A i \in 1 .. Len(path) : \A j \in 1 .. Len(path) :
          i # j => path[i][1] # path[j][1]

\* C3.  Distinctness invariant: every chain the search returned and
\* run_simulation committed, active or backup, has exactly one vertex per
\* stage of its request, in stage order, and no two stages on one host.
DistinctnessInvariant ==
    /\ \A k \in 1 .. Len(placements) :
          LET request == sfc_requests[placements[k].SFC_ID + 1]
          IN  /\ IsChainFor(placements[k].Active_Path, request)
              /\ placements[k].Backup_Path # <<>>
                    => IsChainFor(placements[k].Backup_Path, request)
    /\ (pc = "reserve_active" \/ ActiveInFlight) => IsChainFor(result_active.path, sfc)
    /\ (pc = "backup_result" /\ result_backup.found) => IsChainFor(result_backup.path, sfc)

\* C3 witness: a recorded request of three stages has both chains.
DistinctnessWitness ==
    \E k \in 1 .. Len(placements) :
        /\ Len(placements[k].Active_Path) = 3
        /\ Len(placements[k].Backup_Path) = 3

----------------------------------------------------------------------------
(* The search, stated on sets *)

\* the Cartesian product of the per-stage candidate lists, as a set
RECURSIVE ChainSpace(_)
ChainSpace(stage_nodes) ==
    IF stage_nodes = <<>> THEN { <<>> }
    ELSE { <<v>> \o c : v \in SeqRange(Head(stage_nodes)),
                        c \in ChainSpace(Tail(stage_nodes)) }

\* ingress delay / cost: zero when the first host is the source, else that
\* of the substrate's delay-shortest path; egress likewise
Ingress(t, request, chain, attr) ==
    IF chain[1][1] = request.src THEN 0
    ELSE IF attr = "delay" THEN shortest_path_delay(t, request.src, chain[1][1])
                           ELSE shortest_path_cost(t, request.src, chain[1][1])

Egress(t, request, chain, attr) ==
    IF chain[Len(chain)][1] = request.dest THEN 0
    ELSE IF attr = "delay" THEN shortest_path_delay(t, chain[Len(chain)][1], request.dest)
                           ELSE shortest_path_cost(t, chain[Len(chain)][1], request.dest)

RECURSIVE InterStage(_, _, _, _)
InterStage(MSG, chain, attr, i) ==
    IF i >= Len(chain) THEN 0
    ELSE (IF attr = "delay" THEN MSG.edges[<<chain[i], chain[i + 1]>>].delay
                            ELSE MSG.edges[<<chain[i], chain[i + 1]>>].cost)
         + InterStage(MSG, chain, attr, i + 1)

Total(MSG, t, request, chain, attr) ==
    InterStage(MSG, chain, attr, 1) + Ingress(t, request, chain, attr)
        + Egress(t, request, chain, attr)

\* distinct hosts and an MSG edge between every consecutive pair
WellFormed(MSG, chain) ==
    /\ Cardinality(HostsOf(chain)) = Len(chain)
    /\ \A i \in 1 .. (Len(chain) - 1) : <<chain[i], chain[i + 1]>> \in DOMAIN MSG.edges

\* the chains of the product that are distinct, connected and in budget
Survivors(MSG, stage_nodes, request, t) ==
    { c \in ChainSpace(stage_nodes) :
        /\ WellFormed(MSG, c)
        /\ Total(MSG, t, request, c, "delay") <= request.max_delay }

\* result is what an exact search returns on these inputs
Exact(result, MSG, stage_nodes, request, t) ==
    LET S == Survivors(MSG, stage_nodes, request, t)
    IN  IF S = {} THEN result = None
        ELSE /\ result.found
             /\ result.path \in S
             /\ result.delay = Total(MSG, t, request, result.path, "delay")
             /\ result.cost = Total(MSG, t, request, result.path, "cost")
             /\ \A c \in S : result.cost <= Total(MSG, t, request, c, "cost")

\* the last line printed
LastLog == IF log = <<>> THEN <<-1, "">> ELSE log[Len(log)]

\* the active search of the previous request has just returned not-found
ActiveNotFound ==
    /\ pc = "loop"
    /\ idx > 1
    /\ LastLog = <<sfc_requests[idx - 1].id, "No valid active path within delay constraint">>

\* C4.  Search exactness: find_feasible_path returns not-found exactly when
\* no chain of the Cartesian product is distinct, connected by MSG edges and
\* within max_delay (inter-stage + ingress + egress); otherwise it returns
\* such a chain, with its totals, whose total cost is at most that of every
\* other such chain.  Checked on every result run_simulation obtains, active
\* and backup.
SearchExactness ==
    /\ pc = "reserve_active"
          => Exact(result_active, MSG_active, stage_nodes_active, sfc, topo)
    /\ ActiveNotFound
          => /\ result_active = None
             /\ Exact(None, MSG_active, stage_nodes_active, sfc_requests[idx - 1], topo)
    /\ pc = "backup_result"
          => Exact(result_backup, MSG_backup, stage_nodes_backup, sfc, topo)

\* C4 witness: the search returned a chain although a cheaper chain of the
\* product was over budget, and costlier chains were in budget.
SearchExactnessWitness ==
    /\ pc = "reserve_active"
    /\ result_active.found
    /\ \E c \in ChainSpace(stage_nodes_active) :
          /\ WellFormed(MSG_active, c)
          /\ Total(MSG_active, topo, sfc, c, "delay") > sfc.max_delay
          /\ Total(MSG_active, topo, sfc, c, "cost") < result_active.cost
    /\ \E c \in Survivors(MSG_active, stage_nodes_active, sfc, topo) :
          Total(MSG_active, topo, sfc, c, "cost") > result_active.cost

----------------------------------------------------------------------------
(* Backup, failure and cost properties of run_simulation *)

\* the record appended by this step
Appended == placements'[Len(placements')]

AppendsOne ==
    /\ Len(placements') = Len(placements) + 1
    /\ SubSeq(placements', 1, Len(placements)) = placements

\* C6.  Best-effort backup: from the point where the active chain is
\* committed and the backup search has found no chain, the next step appends
\* a record for the request with the active chain, an empty backup chain and
\* backup delay, backup cost, backup deployment cost and backup-delay-cost
\* all 0, and leaves the ledger, with the active reservation, unchanged.
BestEffortBackup ==
    [][ (pc = "backup_result" /\ ~result_backup.found) =>
           /\ AppendsOne
           /\ Appended.SFC_ID = sfc.id
           /\ Appended.Active_Path = result_active.path
           /\ Appended.Backup_Path = <<>>
           /\ Appended.Backup_Delay = 0
           /\ Appended.Backup_Cost = 0
           /\ Appended.Deploy_Cost_backup = 0
           /\ Appended.Backup_Delay_Cost = 0
           /\ physical_nodes' = physical_nodes
           /\ \A i \in 1 .. Len(result_active.path) :
                 LET node == physical_nodes'[result_active.path[i][1] + 1]
                 IN  node.activated /\ node.used_cpu >= sfc.stages[i]
           /\ idx' = idx + 1
      ]_vars

\* C6 witness: a request was recorded without a backup because a backup
\* stage had no candidate at all, and its active reservation is in the
\* ledger.
BestEffortBackupWitness ==
    /\ pc = "loop"
    /\ placements # <<>>
    /\ LastLog = <<placements[Len(placements)].SFC_ID, "No valid backup path found">>
    /\ placements[Len(placements)].Backup_Path = <<>>
    /\ \E s \in 1 .. Len(stage_nodes_backup) : stage_nodes_backup[s] = <<>>
    /\ \A h \in HostsOf(placements[Len(placements)].Active_Path) :
          physical_nodes[h + 1].used_cpu > 0

\* StageInfeasible: some stage's demand fits on no host of the ledger
StageInfeasible(request, nodes) ==
    \E s \in 1 .. Len(request.stages) :
        \A i \in 1 .. Len(nodes) : nodes[i].cpu - nodes[i].used_cpu < request.stages[s]

\* the request ends as "no placement": ledger and records untouched, the
\* outcome printed, the loop at the next request
Recovered(message) ==
    /\ physical_nodes' = physical_nodes
    /\ placements' = placements
    /\ log' = Append(log, <<sfc.id, message>>)
    /\ idx' = idx + 1
    /\ pc' = "loop"

\* C7.  Per-request failure recovery: when the active placement of a
\* request fails, because a stage has no qualifying host or because no
\* chain is feasible, the step leaves used_cpu and activated of every host
\* as they were, appends no record, prints the request as not placed, and
\* moves the loop to the next request.
FailureRecovery ==
    [][ /\ (pc = "loop" /\ idx <= Len(sfc_requests)
                /\ StageInfeasible(sfc, physical_nodes))
            => Recovered("No feasible placement for active path")
        /\ (pc = "search_active"
                /\ Survivors(MSG_active, stage_nodes_active, sfc, topo) = {})
            => Recovered("No valid active path within delay constraint")
      ]_vars

\* C7 witness: the second request failed for a stage without candidates
\* after the first one had been placed; the ledger still holds the first
\* request's reservation and nothing of the second.
FailureRecoveryWitness ==
    /\ pc = "loop"
    /\ idx = 3
    /\ Len(placements) = 1
    /\ LastLog = <<1, "No feasible placement for active path">>
    /\ \E i \in 1 .. Len(physical_nodes) : physical_nodes[i].used_cpu > 0

RECURSIVE StageDelaySum(_, _, _, _)
StageDelaySum(t, active, backup, i) ==
    IF i > Len(active) THEN 0
    ELSE shortest_path_delay(t, active[i][1], backup[i][1])
         + StageDelaySum(t, active, backup, i + 1)

\* C8.  Total cost: every record's total cost is active cost + backup cost
\* + active deployment cost + backup deployment cost + backup-delay-cost;
\* without a backup chain the three backup terms are 0; with one, the two
\* chains have the same length, a substrate path joins the two hosts of
\* every stage index, and backup-delay-cost is the sum over all stage
\* indices of the delay of the delay-shortest path between them.
TotalCostIdentity ==
    \A k \in 1 .. Len(placements) :
        LET r == placements[k]
        IN  /\ r.Total_Cost = r.Active_Cost + r.Backup_Cost + r.Deploy_Cost_active
                                + r.Deploy_Cost_backup + r.Backup_Delay_Cost
            /\ r.Backup_Path = <<>> =>
                  /\ r.Backup_Cost = 0
                  /\ r.Deploy_Cost_backup = 0
                  /\ r.Backup_Delay_Cost = 0
            /\ r.Backup_Path # <<>> =>
                  /\ Len(r.Backup_Path) = Len(r.Active_Path)
                  /\ \A i \in 1 .. Len(r.Active_Path) :
                        has_path(topo, r.Active_Path[i][1], r.Backup_Path[i][1])
                  /\ r.Backup_Delay_Cost = StageDelaySum(topo, r.Active_Path, r.Backup_Path, 1)

\* C8 witness: a record with a backup chain of three stages, and a record
\* without a backup chain.
TotalCostWitness ==
    /\ \E k \in 1 .. Len(placements) :
          /\ Len(placements[k].Backup_Path) = 3
          /\ placements[k].Backup_Delay_Cost > 0
    /\ \E k \in 1 .. Len(placements) : placements[k].Backup_Path = <<>>

----------------------------------------------------------------------------
(* Reservation *)

RECURSIVE SumOver(_, _)
SumOver(stages, positions) ==
    IF positions = {} THEN 0
    ELSE LET i == CHOOSE j \in positions : TRUE
         IN  stages[i] + SumOver(stages, positions \ {i})

\* the CPU demand a chain for request puts on host h
DemandOn(path, request, h) ==
    SumOver(request.stages, {i \in 1 .. Len(path) : path[i][1] = h})

\* after is before with the chain charged: each host of the chain has its
\* stage's demand more in use and is activated, every other host is as before
Charged(before, after, path, request) ==
    /\ Len(after) = Len(before)
    /\ \A i \in 1 .. Len(before) :
          IF before[i].id \in HostsOf(path)
          THEN /\ after[i].used_cpu = before[i].used_cpu + DemandOn(path, request, before[i].id)
               /\ after[i].activated
               /\ after[i].cpu = before[i].cpu
               /\ after[i].id = before[i].id
          ELSE after[i] = before[i]

\* activation charge for the chain's hosts not activated before, plus the
\* deployment charge for the chain's demands
ExtraCost(before, path, request) ==
    NODE_ACTIVATION_COST
        * Cardinality({h \in HostsOf(path) : ~before[h + 1].activated})
    + PE_DEPLOY_UNIT_COST * SumOver(request.stages, 1 .. Len(path))

\* the CPU all committed chains put on host h: those of the records, and
\* the active chain whose record is not yet appended
RECURSIVE RecordedDemand(_, _)
RecordedDemand(k, h) ==
    IF k = 0 THEN 0
    ELSE LET r == placements[k]
             request == sfc_requests[r.SFC_ID + 1]
         IN  DemandOn(r.Active_Path, request, h) + DemandOn(r.Backup_Path, request, h)
             + RecordedDemand(k - 1, h)

CommittedDemand(h) ==
    RecordedDemand(Len(placements), h)
        + (IF ActiveInFlight THEN DemandOn(result_active.path, sfc, h) ELSE 0)

ReservesNow ==
    \/ pc = "reserve_active"
    \/ pc = "backup_result" /\ result_backup.found

\* C9.  reserve_resources: the step that commits a chain raises used_cpu of
\* each host of the chain by that stage's demand, activates it, leaves the
\* other hosts unchanged and returns NODE_ACTIVATION_COST times the number
\* of chain hosts not activated before plus PE_DEPLOY_UNIT_COST times the
\* chain's demands; no other step of run_simulation changes the ledger, and
\* at every point each host's used_cpu is the demand of the chains committed
\* so far, each counted once.
ReservationEffect ==
    /\ [](\A i \in 1 .. Len(physical_nodes) :
             physical_nodes[i].used_cpu = CommittedDemand(physical_nodes[i].id))
    /\ [][ /\ pc = "reserve_active" =>
                /\ Charged(physical_nodes, physical_nodes', result_active.path, sfc)
                /\ extra_cost_a' = ExtraCost(physical_nodes, result_active.path, sfc)
           /\ (pc = "backup_result" /\ result_backup.found) =>
                /\ Charged(physical_nodes, physical_nodes', result_backup.path, sfc)
                /\ AppendsOne
                /\ Appended.Deploy_Cost_active = extra_cost_a
                /\ Appended.Deploy_Cost_backup
                      = ExtraCost(physical_nodes, result_backup.path, sfc)
           /\ ~ReservesNow => physical_nodes' = physical_nodes
         ]_vars

\* C9 witness: a backup chain was committed on three hosts of which some,
\* but not all, had been activated by an earlier request.
ReservationWitness ==
    /\ pc = "loop"
    /\ Len(placements) = 2
    /\ Len(placements[2].Backup_Path) = 3
    /\ placements[2].Deploy_Cost_backup
          > PE_DEPLOY_UNIT_COST * SumOver(sfc_requests[2].stages, 1 .. 3)
    /\ placements[2].Deploy_Cost_backup
          < 3 * NODE_ACTIVATION_COST
              + PE_DEPLOY_UNIT_COST * SumOver(sfc_requests[2].stages, 1 .. 3)

\* C10.  Short-circuit on structural infeasibility: find_feasible_path is
\* never about to be invoked, for the active or for the backup attempt, on
\* per-stage candidate lists of which one is empty.
ShortCircuitOnEmptyStage ==
    /\ pc = "search_active" =>
          \A s \in 1 .. Len(stage_nodes_active) : stage_nodes_active[s] # <<>>
    /\ pc = "search_backup" =>
          \A s \in 1 .. Len(stage_nodes_backup) : stage_nodes_backup[s] # <<>>

----------------------------------------------------------------------------
(* The search against the exhaustive enumerator *)

\* a search result and the enumerator's result agree: both find nothing, or
\* both find a chain and the costs are equal
Agree(result, brute) ==
    /\ result.found <=> brute.found
    /\ result.found => result.cost = brute.cost

\* every host has the resources for every stage of the request
EveryHostQualifies ==
    \A i \in 1 .. Len(physical_nodes) : \A s \in 1 .. Len(sfc.stages) :
        physical_nodes[i].cpu - physical_nodes[i].used_cpu >= sfc.stages[s]

\* C5.  On substrates of at most 6 hosts and chains of at most 3 stages, the
\* MSG search (construct_msg + find_feasible_path, of MSG.py and of
\* brute-force_SFC_placement.py) and the exhaustive enumerator
\* run_brute_force find no chain together, and otherwise choose the same
\* cost.
OracleAgreement ==
    pc = "compared" =>
        /\ Agree(result_active, result_brute)
        /\ Agree(result_active_bf, result_brute)

\* C5, the case reached: on a graph of five hosts where every host has the
\* resources for every stage of a chain of three stages, the budget rules
\* out some chains, the search of brute-force_SFC_placement.py and
\* run_brute_force choose the same cost, and the search of MSG.py, whose
\* totals carry the ingress and egress legs, chooses another.
OracleAgreementWitness ==
    /\ pc = "compared"
    /\ EveryHostQualifies
    /\ Cardinality(Topologies[topo].nodes) = 5
    /\ Len(sfc.stages) = 3
    /\ sfc.max_delay < 20
    /\ result_active_bf.found
    /\ result_brute.found
    /\ result_active_bf.cost = result_brute.cost
    /\ result_active.found
    /\ result_active.cost # result_brute.cost

\* What the comparison of simulate_with_msg_and_brute does establish: on a
\* ledger where every host has the resources for every stage, the search of
\* brute-force_SFC_placement.py, whose totals are those of the inter-stage
\* edges alone, and run_brute_force find no chain together, and otherwise
\* choose the same hosts, delay and cost.
InterStageAgreement ==
    (pc = "compared" /\ EveryHostQualifies) =>
        /\ Agree(result_active_bf, result_brute)
        /\ result_active_bf.found =>
              /\ result_active_bf.delay = result_brute.delay
              /\ [i \in 1 .. Len(result_active_bf.path) |-> result_active_bf.path[i][1]]
                    = result_brute.path

----------------------------------------------------------------------------
(* Endpoints the substrate does not reach *)

\* what a leg between an endpoint of the request and a host of the chain
\* contributes: nothing when they coincide, nothing when the substrate has
\* no path between them, else the delay-shortest path's delay or cost
LegOrZero(t, u, v, attr) ==
    IF u = v THEN 0
    ELSE IF ~has_path(t, u, v) THEN 0
    ELSE IF attr = "delay" THEN shortest_path_delay(t, u, v)
                           ELSE shortest_path_cost(t, u, v)

TotalOrZero(MSG, t, request, chain, attr) ==
    InterStage(MSG, chain, attr, 1)
        + LegOrZero(t, request.src, chain[1][1], attr)
        + LegOrZero(t, chain[Len(chain)][1], request.dest, attr)

\* the first host of the chain is not the source and no path joins them, or
\* the last host is not the destination and no path joins them
EndpointUnreachable(t, request, chain) ==
    \/ chain[1][1] # request.src /\ ~has_path(t, request.src, chain[1][1])
    \/ /\ chain[Len(chain)][1] # request.dest
       /\ ~has_path(t, chain[Len(chain)][1], request.dest)

\* the chains that survive when an unreachable endpoint costs nothing
SurvivorsOrZero ==
    { c \in ChainSpace(stage_nodes_active) :
        /\ WellFormed(MSG_active, c)
        /\ TotalOrZero(MSG_active, topo, sfc, c, "delay") <= sfc.max_delay }

\* C11.  Unreachable endpoint: find_feasible_path does not reject a chain
\* whose first host has no substrate path from the source, or whose last
\* host has none to the destination; that leg contributes zero delay and
\* zero cost.  So the search returns not-found only when no chain survives
\* with such legs counted as zero, otherwise a survivor of least total cost
\* with those totals, unreachable endpoints or not, and the chain returned
\* is the one reserve_resources commits.
UnreachableEndpoint ==
    /\ pc \in {"oracle_bf", "oracle_brute", "compared", "committed"} =>
          IF SurvivorsOrZero = {} THEN result_active = None
          ELSE /\ result_active.found
               /\ result_active.path \in SurvivorsOrZero
               /\ result_active.delay
                     = TotalOrZero(MSG_active, topo, sfc, result_active.path, "delay")
               /\ result_active.cost
                     = TotalOrZero(MSG_active, topo, sfc, result_active.path, "cost")
               /\ \A c \in SurvivorsOrZero :
                     result_active.cost
                        <= TotalOrZero(MSG_active, topo, sfc, c, "cost")
    /\ pc = "committed" =>
          \A i \in 1 .. Len(physical_nodes) :
              IF physical_nodes[i].id \in HostsOf(result_active.path)
              THEN physical_nodes[i].activated /\ physical_nodes[i].used_cpu > 0
              ELSE physical_nodes[i].used_cpu = 0

\* C11 witness: a chain whose first host the source does not reach was
\* returned and committed as the minimum-cost placement, ahead of surviving
\* chains with both endpoints reachable, all of them costlier.
UnreachableEndpointWitness ==
    /\ pc = "committed"
    /\ result_active.path[1][1] # sfc.src
    /\ ~has_path(topo, sfc.src, result_active.path[1][1])
    /\ \E c \in SurvivorsOrZero : ~EndpointUnreachable(topo, sfc, c)
    /\ \A c \in SurvivorsOrZero :
          ~EndpointUnreachable(topo, sfc, c)
             => TotalOrZero(MSG_active, topo, sfc, c, "cost") > result_active.cost

----------------------------------------------------------------------------
(* Ties between chains of least cost *)

\* chain c comes before chain d in the enumeration of the Cartesian product
\* with stage 0 varying slowest and every stage list in ledger host order:
\* at the first stage where they differ, c is on the host of smaller id
EnumeratedBefore(c, d) ==
    \E i \in 1 .. Len(c) :
        /\ \A j \in 1 .. (i - 1) : c[j] = d[j]
        /\ c[i][1] < d[i][1]

\* every stage list holds that stage's vertices, in ledger host order
InLedgerOrder(stage_nodes) ==
    \A s \in 1 .. Len(stage_nodes) :
        /\ \A k \in 1 .. Len(stage_nodes[s]) : stage_nodes[s][k][2] = s - 1
        /\ \A k \in 1 .. (Len(stage_nodes[s]) - 1) :
              stage_nodes[s][k][1] < stage_nodes[s][k + 1][1]

\* result is the survivor of least total cost that is enumerated first
FirstOfLeastCost(result, MSG, stage_nodes, request, t) ==
    LET S == Survivors(MSG, stage_nodes, request, t)
    IN  /\ InLedgerOrder(stage_nodes)
        /\ result.found =>
              /\ result.path \in S
              /\ \A c \in S :
                    \/ c = result.path
                    \/ Total(MSG, t, request, c, "cost") > result.cost
                    \/ /\ Total(MSG, t, request, c, "cost") = result.cost
                       /\ EnumeratedBefore(result.path, c)

\* C12.  Stable tie-breaking: when several surviving chains share the
\* minimum total cost, find_feasible_path returns the one that comes first
\* in the enumeration order of the Cartesian product of the per-stage
\* candidate lists (stage 0 varying slowest, each list in ledger host
\* order), whatever their delays; the result is thereby determined by the
\* substrate, the request and the ledger.  Stated of the active and of the
\* backup result of run_simulation.
StableTieBreaking ==
    /\ pc = "reserve_active"
          => FirstOfLeastCost(result_active, MSG_active, stage_nodes_active, sfc, topo)
    /\ pc = "backup_result"
          => FirstOfLeastCost(result_backup, MSG_backup, stage_nodes_backup, sfc, topo)

\* C12 witness: the active search returned a chain although another
\* survivor of the same least cost, later in the enumeration, has a
\* smaller total delay.
StableTieBreakingWitness ==
    /\ pc = "reserve_active"
    /\ \E c \in Survivors(MSG_active, stage_nodes_active, sfc, topo) :
          /\ c # result_active.path
          /\ Total(MSG_active, topo, sfc, c, "cost") = result_active.cost
          /\ Total(MSG_active, topo, sfc, c, "delay") < result_active.delay
          /\ EnumeratedBefore(result_active.path, c)

=============================================================================
